---- MODULE Spec2Model ----
(***************************************************************************)
(* A model of pysteps/utils/dimension.py: the window aggregator            *)
(* (aggregate_fields), the temporal and spatial aggregators built on it,   *)
(* adjust_domain and square_domain (forward and inverse).                  *)
(*                                                                         *)
(* A field (numpy array) is a record [shape, data]: data is the array's    *)
(* values in C (row-major) order, indexed from 1.  Indices along an axis   *)
(* are 0-based as in the source.  A value is a rational <<n, d>> in lowest *)
(* terms with d > 0; NaN is <<0, 0>>.  Floating-point rounding is not      *)
(* modelled.                                                               *)
(***************************************************************************)
EXTENDS Integers, Sequences, FiniteSets, TLC

VARIABLES R, metadata, call, ret, hist, passed

vars == <<R, metadata, call, ret, hist, passed>>

\* ---------------------------------------------------------------- bounds
MaxExt == 4
MaxAggCells == 8
MaxNaN == 2
MaxSide == 3
MaxCells == 9
MaxWindow == 3
MaxCalls == 3
MaxDepth == 2

\* ---------------------------------------------------------------- values
NaN == <<0, 0>>

IsNaN(v) == v[2] = 0

Q(n) == <<n, 1>>

Abs(n) == IF n < 0 THEN -n ELSE n

RECURSIVE GCD(_, _)
GCD(a, b) == IF b = 0 THEN a ELSE GCD(b, a % b)

\* the rational n/d (d > 0) in lowest terms
Norm(n, d) == LET g == GCD(Abs(n), d) IN <<n \div g, d \div g>>

\* float addition: NaN propagates
Add(a, b) == IF IsNaN(a) \/ IsNaN(b) THEN NaN
             ELSE Norm(a[1] * b[2] + b[1] * a[2], a[2] * b[2])

\* float division by a count; 0/0 is NaN
DivCount(a, k) == IF IsNaN(a) \/ k = 0 THEN NaN ELSE Norm(a[1], a[2] * k)

Less(a, b) == a[1] * b[2] < b[1] * a[2]

\* int(a / b) for b > 0: Python's int() truncates toward zero
TruncDiv(a, b) == IF a >= 0 THEN a \div b ELSE -((-a) \div b)

\* ---------------------------------------------------------------- arrays
RECURSIVE ProdFrom(_, _)
ProdFrom(s, k) == IF k > Len(s) THEN 1 ELSE s[k] * ProdFrom(s, k + 1)

\* number of elements of an array of shape s
Size(s) == ProdFrom(s, 1)

\* C-order stride of axis k (1-based axis position)
Stride(s, k) == ProdFrom(s, k + 1)

\* multi-index (0-based entries) of flat position i (0-based)
Unravel(i, s) == [k \in 1..Len(s) |-> (i \div Stride(s, k)) % s[k]]

RECURSIVE RavelFrom(_, _, _)
RavelFrom(I, s, k) == IF k > Len(s) THEN 0
                      ELSE I[k] * Stride(s, k) + RavelFrom(I, s, k + 1)

\* flat position (0-based) of multi-index I
Ravel(I, s) == RavelFrom(I, s, 1)

\* the element of F at multi-index I
At(F, I) == F.data[Ravel(I, F.shape) + 1]

Rank(F) == Len(F.shape)

\* ndarray.copy(): a new array with the same shape and values
Copy(F) == [shape |-> F.shape, data |-> F.data]

\* ndarray.reshape(s) of a C-contiguous array: same values in C order
Reshape(F, s) == [shape |-> s, data |-> F.data]

Swap(I, a, b) == [k \in 1..Len(I) |-> IF k = a THEN I[b] ELSE IF k = b THEN I[a] ELSE I[k]]

\* ndarray.swapaxes(a, b) followed by a C-order copy; axes 1-based here
SwapAxes(F, a, b) ==
  LET s == Swap(F.shape, a, b)
  IN [shape |-> s,
      data |-> [i \in 1..Size(s) |-> At(F, Swap(Unravel(i - 1, s), a, b))]]

RECURSIVE SqueezeShape(_)
SqueezeShape(s) == IF s = <<>> THEN <<>>
                   ELSE (IF Head(s) = 1 THEN <<>> ELSE <<Head(s)>>) \o SqueezeShape(Tail(s))

\* ndarray.squeeze(): drop every axis of extent 1
Squeeze(F) == Reshape(F, SqueezeShape(F.shape))

\* ------------------------------------------------------- aggregate_fields
\* str.lower() on the method names the model passes
Lower(m) == CASE m = "SUM" -> "sum"
              [] m = "Mean" -> "mean"
              [] OTHER -> m

Methods == {"sum", "mean", "nansum", "nanmean"}

RECURSIVE SumOver(_, _, _, _)
\* sum over j = lo..w-1 of B[k, j, m], NaN propagating (ndarray.sum)
SumOver(B, k, m, lo) ==
  IF lo >= B.shape[2] THEN Q(0)
  ELSE Add(At(B, <<k, lo, m>>), SumOver(B, k, m, lo + 1))

RECURSIVE NanSumOver(_, _, _, _)
\* the same sum with NaN entries treated as zero (np.nansum)
NanSumOver(B, k, m, lo) ==
  IF lo >= B.shape[2] THEN Q(0)
  ELSE LET v == At(B, <<k, lo, m>>)
       IN Add(IF IsNaN(v) THEN Q(0) ELSE v, NanSumOver(B, k, m, lo + 1))

\* number of entries of B[k, :, m] that are not NaN
NanCount(B, k, m) == Cardinality({j \in 0..(B.shape[2] - 1) : ~IsNaN(At(B, <<k, j, m>>))})

\* the reduction along axis 1 of the 3-D array B, one value per (k, m)
ReduceAxis1(B, method, k, m) ==
  CASE method = "sum" -> SumOver(B, k, m, 0)
    [] method = "mean" -> DivCount(SumOver(B, k, m, 0), B.shape[2])
    [] method = "nansum" -> NanSumOver(B, k, m, 0)
    [] method = "nanmean" -> DivCount(NanSumOver(B, k, m, 0), NanCount(B, k, m))

Raise(e) == [kind |-> "error", error |-> e]

\* a plausible slip: the rows are grouped with stride N/w instead of in
\* consecutive runs of w
BlockReduceStrided(R_, window_size, method) ==
  LET s2 == <<R_.shape[1] \div window_size, R_.shape[2]>>
      B == SwapAxes(Reshape(R_, <<window_size, s2[1], s2[2]>>), 1, 2)
  IN [shape |-> s2,
      data |-> [i \in 1..Size(s2) |->
                  ReduceAxis1(B, method, Unravel(i - 1, s2)[1], Unravel(i - 1, s2)[2])]]

\* R_.reshape(int(N/window_size), window_size, R_.shape[1]) reduced along axis 1
BlockReduce(R_, window_size, method) ==
  LET s2 == <<R_.shape[1] \div window_size, R_.shape[2]>>
      B == Reshape(R_, <<s2[1], window_size, s2[2]>>)
  IN [shape |-> s2,
      data |-> [i \in 1..Size(s2) |->
                  ReduceAxis1(B, method, Unravel(i - 1, s2)[1], Unravel(i - 1, s2)[2])]]

\* a plausible slip: the test of the remainder left out
SplitsUnchecked(N, window_size) == TRUE

\* not (N % window_size): the window splits the axis in whole blocks
Splits(N, window_size) == N % window_size = 0

\* aggregate_fields(R, window_size, axis, method); axis 0-based as in the source
aggregate_fields(F, window_size, axis, method) ==
  LET N == F.shape[axis + 1]
  IN IF window_size = 0 THEN Raise("ZeroDivisionError")
     ELSE IF ~Splits(N, window_size) THEN Raise("ValueError")
     ELSE IF Lower(method) \notin Methods THEN Raise("ValueError")
     ELSE
       LET S == SwapAxes(Copy(F), axis + 1, 1)
           shape == S.shape
           R_ == Reshape(S, <<N, Size(shape) \div N>>)
           R__ == BlockReduce(R_, window_size, Lower(method))
           out == SwapAxes(Reshape(R__, [shape EXCEPT ![1] = N \div window_size]),
                           axis + 1, 1)
       IN [kind |-> "field", R |-> out]

\* ---------------------------------------------------------- metadata dict
\* dict.copy()
CopyDict(md) == [k \in DOMAIN md |-> md[k]]

\* md[k] = v
Put(md, k, v) == [x \in (DOMAIN md) \cup {k} |-> IF x = k THEN v ELSE md[x]]

\* the dict left by md.pop(k)
Pop(md, k) == [x \in (DOMAIN md) \ {k} |-> md[x]]

Has(md, k) == k \in DOMAIN md

\* ------------------------------------------------------- 4-D array helpers
Max(a, b) == IF a >= b THEN a ELSE b

Min(a, b) == IF a <= b THEN a ELSE b

\* R[None, None, :] for rank 2, R[None, :] for rank 3
Promote4(F) ==
  IF Rank(F) = 2 THEN Reshape(F, <<1, 1>> \o F.shape)
  ELSE IF Rank(F) = 3 THEN Reshape(F, <<1>> \o F.shape)
  ELSE F

\* the array of shape s filled with v (np.ones(s)*v, np.zeros(s))
Full(s, v) == [shape |-> s, data |-> [i \in 1..Size(s) |-> v]]

\* ndarray.min(): NaN when any element is NaN
ArrMin(F) ==
  IF \E i \in 1..Size(F.shape) : IsNaN(F.data[i]) THEN NaN
  ELSE CHOOSE v \in {F.data[i] : i \in 1..Size(F.shape)} :
         \A i \in 1..Size(F.shape) : ~Less(F.data[i], v)

\* where a slice bound lands on an axis of extent n (negative bounds count
\* from the end, all are clipped to 0..n)
Clamp(v, n) == IF v < 0 THEN Max(v + n, 0) ELSE Min(v, n)

SliceStart(start, n) == Clamp(start, n)

\* number of positions selected by start:stop on an axis of extent n
SliceLen(start, stop, n) == Max(Clamp(stop, n) - Clamp(start, n), 0)

\* F[..., start:stop, ...] along axis (1-based axis position)
SliceAxis(F, axis, start, stop) ==
  LET n == F.shape[axis]
      s == [F.shape EXCEPT ![axis] = SliceLen(start, stop, n)]
  IN [shape |-> s,
      data |-> [i \in 1..Size(s) |->
                  At(F, [Unravel(i - 1, s) EXCEPT ![axis] = @ + SliceStart(start, n)])]]

\* whether an array of shape ss can be assigned to a target of shape ts: on
\* every axis the extent is that of the target or 1 (numpy broadcasting)
Broadcasts(ss, ts) == \A k \in 1..Len(ts) : ss[k] = ts[k] \/ ss[k] = 1

\* D after D[window] = S, the window being the positions lo[k] .. lo[k]+len[k]-1
\* of every axis k
AssignWindow(D, lo, len, S) ==
  [shape |-> D.shape,
   data |-> [i \in 1..Size(D.shape) |->
               LET I == Unravel(i - 1, D.shape)
               IN IF \A k \in 1..Len(I) : I[k] >= lo[k] /\ I[k] < lo[k] + len[k]
                  THEN At(S, [k \in 1..Len(I) |-> IF S.shape[k] = 1 THEN 0 ELSE I[k] - lo[k]])
                  ELSE D.data[i]]]

\* whether S can be assigned to D[..., start:stop, ...] along axis
CanAssignAxis(D, axis, start, stop, S) ==
  Broadcasts(S.shape, [D.shape EXCEPT ![axis] = SliceLen(start, stop, D.shape[axis])])

\* D after D[..., start:stop, ...] = S along axis
AssignAxis(D, axis, start, stop, S) ==
  AssignWindow(D,
               [k \in 1..Len(D.shape) |-> IF k = axis THEN SliceStart(start, D.shape[k]) ELSE 0],
               [D.shape EXCEPT ![axis] = SliceLen(start, stop, D.shape[axis])],
               S)

Pair(F, md) == [kind |-> "pair", R |-> F, metadata |-> md]

FieldOnly(F) == [kind |-> "field", R |-> F]

\* ----------------------------------------------------------- square_domain
\* the not-inverse branch, on the copies of R and metadata
square_forward(F, md, method) ==
  IF Rank(F) < 2 \/ Rank(F) > 4 THEN Raise("ValueError")
  ELSE
    LET P == Promote4(F)
        orig_dim_y == P.shape[3]
        orig_dim_x == P.shape[4]
    IN IF orig_dim_y = orig_dim_x THEN FieldOnly(Squeeze(P))
       ELSE IF method = "pad" THEN
         LET new_dim == Max(orig_dim_y, orig_dim_x)
             R_ == Full(<<P.shape[1], P.shape[2], new_dim, new_dim>>, ArrMin(P))
             bx == TruncDiv(new_dim - orig_dim_x, 2)
             by == TruncDiv(new_dim - orig_dim_y, 2)
             out == IF orig_dim_x < new_dim
                    THEN AssignAxis(R_, 4, bx, bx + orig_dim_x, P)
                    ELSE AssignAxis(R_, 3, by, by + orig_dim_y, P)
             md1 == IF orig_dim_x < new_dim
                    THEN [md EXCEPT !.x1 = @ - bx * md.xpixelsize,
                                    !.x2 = @ + bx * md.xpixelsize]
                    ELSE [md EXCEPT !.y1 = @ - by * md.ypixelsize,
                                    !.y2 = @ + by * md.ypixelsize]
         IN Pair(Squeeze(out),
                 Put(Put(md1, "orig_domain", <<orig_dim_y, orig_dim_x>>),
                     "square_method", method))
       ELSE IF method = "crop" THEN
         LET new_dim == Min(orig_dim_y, orig_dim_x)
             bx == TruncDiv(orig_dim_x - new_dim, 2)
             by == TruncDiv(orig_dim_y - new_dim, 2)
             out == IF orig_dim_x > new_dim
                    THEN SliceAxis(P, 4, bx, bx + new_dim)
                    ELSE SliceAxis(P, 3, by, by + new_dim)
             md1 == IF orig_dim_x > new_dim
                    THEN [md EXCEPT !.x1 = @ + bx * md.xpixelsize,
                                    !.x2 = @ - bx * md.xpixelsize]
                    ELSE [md EXCEPT !.y1 = @ + by * md.ypixelsize,
                                    !.y2 = @ - by * md.ypixelsize]
         IN Pair(Squeeze(out),
                 Put(Put(md1, "orig_domain", <<orig_dim_y, orig_dim_x>>),
                     "square_method", method))
       ELSE Raise("ValueError")

\* a plausible slip: the recorded state is read but left in the dict
PopStateKept(md) == md

\* the dict after method = metadata.pop("square_method") and
\* shape = metadata.pop("orig_domain")
PopState(md) == Pop(Pop(md, "square_method"), "orig_domain")

\* the inverse branch, on the copies of R and metadata
square_inverse(F, md) ==
  IF Rank(F) < 2 \/ Rank(F) > 4 THEN Raise("ValueError")
  ELSE IF ~Has(md, "square_method") THEN Raise("KeyError")
  ELSE IF ~Has(Pop(md, "square_method"), "orig_domain") THEN Raise("KeyError")
  ELSE
    LET P == Promote4(F)
        method == md.square_method
        shape == md.orig_domain
        md0 == PopState(md)
        zeros == Full(<<P.shape[1], P.shape[2], shape[1], shape[2]>>, Q(0))
        bx == IF method = "pad" THEN TruncDiv(P.shape[4] - shape[2], 2)
              ELSE TruncDiv(shape[2] - P.shape[4], 2)
        by == IF method = "pad" THEN TruncDiv(P.shape[3] - shape[1], 2)
              ELSE TruncDiv(shape[1] - P.shape[3], 2)
    IN IF P.shape[3] = shape[1] /\ P.shape[4] = shape[2] THEN FieldOnly(Squeeze(P))
       ELSE IF method = "pad" THEN
         IF P.shape[3] = shape[1]
         THEN Pair(Squeeze(SliceAxis(P, 4, bx, bx + shape[2])),
                   [md0 EXCEPT !.x1 = @ + bx * md.xpixelsize,
                               !.x2 = @ - bx * md.xpixelsize])
         ELSE IF P.shape[4] = shape[2]
         THEN Pair(Squeeze(SliceAxis(P, 3, by, by + shape[1])),
                   [md0 EXCEPT !.y1 = @ + by * md.ypixelsize,
                               !.y2 = @ - by * md.ypixelsize])
         ELSE Pair(Squeeze(zeros), md0)
       ELSE IF method = "crop" THEN
         IF P.shape[3] = shape[1]
         THEN IF ~CanAssignAxis(zeros, 4, bx, bx + P.shape[4], P) THEN Raise("ValueError")
              ELSE Pair(Squeeze(AssignAxis(zeros, 4, bx, bx + P.shape[4], P)),
                        [md0 EXCEPT !.x1 = @ - bx * md.xpixelsize,
                                    !.x2 = @ + bx * md.xpixelsize])
         ELSE IF P.shape[4] = shape[2]
         THEN IF ~CanAssignAxis(zeros, 3, by, by + P.shape[3], P) THEN Raise("ValueError")
              ELSE Pair(Squeeze(AssignAxis(zeros, 3, by, by + P.shape[3], P)),
                        [md0 EXCEPT !.y1 = @ - by * md.ypixelsize,
                                    !.y2 = @ + by * md.ypixelsize])
         ELSE Pair(Squeeze(zeros), md0)
       ELSE Pair(Squeeze(zeros), md0)

\* square_domain(R, metadata, method, inverse)
square_domain(F, md, method, inverse) ==
  IF ~inverse THEN square_forward(Copy(F), CopyDict(md), method)
  ELSE square_inverse(Copy(F), CopyDict(md))

\* ----------------------------------------------------------- adjust_domain
None == <<>>

\* Twice-and-D-times the i-th pixel centre of
\* np.linspace(start, stop, n) + pixelsize/2, where D = max(n - 1, 1): the
\* centres are compared with the bounds in these units, which keeps the
\* arithmetic in the integers
CentreScaled(i, n, start, stop, pixelsize) ==
  2 * Max(n - 1, 1) * start + 2 * i * (stop - start) + Max(n - 1, 1) * pixelsize

\* np.where(np.logical_and(coord < hi, coord > lo))[0] for the n centres of
\* np.linspace(start, stop, n) + pixelsize/2
CentresWithin(n, start, stop, pixelsize, lo, hi) ==
  {i \in 0..(n - 1) :
     /\ CentreScaled(i, n, start, stop, pixelsize) < 2 * Max(n - 1, 1) * hi
     /\ CentreScaled(i, n, start, stop, pixelsize) > 2 * Max(n - 1, 1) * lo}

SetMin(S) == CHOOSE x \in S : \A y \in S : x <= y

SetMax(S) == CHOOSE x \in S : \A y \in S : x >= y

\* adjust_domain(R, metadata, xlim, ylim); a limit is None or a pair
adjust_domain(F, md, xlim0, ylim0) ==
  IF xlim0 = None /\ ylim0 = None THEN Pair(Copy(F), CopyDict(md))
  ELSE IF Rank(F) < 2 \/ Rank(F) > 4 THEN Raise("ValueError")
  ELSE
    LET P == Promote4(Copy(F))
        xlim == IF xlim0 = None THEN <<md.x1, md.x2>> ELSE xlim0
        ylim == IF ylim0 = None THEN <<md.y1, md.y2>> ELSE ylim0
        xmin == Min(xlim[1], xlim[2])
        xmax == Max(xlim[1], xlim[2])
        ymin == Min(ylim[1], ylim[2])
        ymax == Max(ylim[1], ylim[2])
        new_dim_x == TruncDiv(xmax - xmin, md.xpixelsize)
        new_dim_y == TruncDiv(ymax - ymin, md.ypixelsize)
        R_ == Full(<<P.shape[1], P.shape[2], new_dim_y, new_dim_x>>, md.zerovalue)
        idx_y == CentresWithin(P.shape[3], md.y1, md.y2 - md.ypixelsize, md.ypixelsize, ymin, ymax)
        idx_x == CentresWithin(P.shape[4], md.x1, md.x2 - md.xpixelsize, md.xpixelsize, xmin, xmax)
        idx_y_ == CentresWithin(new_dim_y, ymin, ymax - md.ypixelsize, md.ypixelsize, md.y1, md.y2)
        idx_x_ == CentresWithin(new_dim_x, xmin, xmax - md.xpixelsize, md.xpixelsize, md.x1, md.x2)
    IN IF idx_y = {} \/ idx_x = {} \/ idx_y_ = {} \/ idx_x_ = {} THEN Raise("IndexError")
       ELSE
         LET src == SliceAxis(SliceAxis(P, 3, SetMin(idx_y), SetMax(idx_y)),
                              4, SetMin(idx_x), SetMax(idx_x))
             lo == <<0, 0, SetMin(idx_y_), SetMin(idx_x_)>>
             len == <<P.shape[1], P.shape[2],
                      SetMax(idx_y_) - SetMin(idx_y_), SetMax(idx_x_) - SetMin(idx_x_)>>
         IN IF ~Broadcasts(src.shape, len) THEN Raise("ValueError")
            ELSE Pair(Squeeze(AssignWindow(R_, lo, len, src)),
                      [CopyDict(md) EXCEPT !.y1 = ymin, !.y2 = ymax, !.x1 = xmin, !.x2 = xmax])

\* ------------------------------------------------- aggregate_fields_space
NoWindow == 0 - 1

\* a plausible slip: the two operators exchanged
UnitMethodSwapped(unit) == IF unit = "mm/h" THEN "sum" ELSE IF unit = "mm" THEN "mean" ELSE "none"

\* a plausible slip: every unit but 'mm' is taken for a rate
UnitMethodLenient(unit) == IF unit = "mm" THEN "sum" ELSE "mean"

\* the operator for the unit (if/elif/else on unit); "none" stands for the
\* else branch, which raises
UnitMethod(unit) == IF unit = "mm/h" THEN "mean" ELSE IF unit = "mm" THEN "sum" ELSE "none"

\* aggregate_fields_space(R, metadata, space_window_m); NoWindow stands for None
aggregate_fields_space(F, md, space_window_m) ==
  IF space_window_m = NoWindow THEN Pair(Copy(F), CopyDict(md))
  ELSE IF Rank(F) < 3 \/ Rank(F) > 4 THEN Raise("ValueError")
  ELSE
    LET axes == IF Rank(F) = 3 THEN <<1, 2>> ELSE <<2, 3>>
        ypixelsize == md.ypixelsize
        xpixelsize == md.xpixelsize
        nframes == <<TruncDiv(space_window_m, ypixelsize), TruncDiv(space_window_m, xpixelsize)>>
        method == UnitMethod(md.unit)
    IN IF ypixelsize = space_window_m /\ xpixelsize = space_window_m
       THEN Pair(Copy(F), CopyDict(md))
       ELSE IF (F.shape[axes[1] + 1] * ypixelsize) % space_window_m # 0
               \/ (F.shape[axes[2] + 1] * xpixelsize) % space_window_m # 0
       THEN Raise("ValueError")
       ELSE IF method = "none" THEN Raise("ValueError")
       ELSE
         LET r1 == aggregate_fields(Copy(F), nframes[1], axes[1], method)
         IN IF r1.kind = "error" THEN r1
            ELSE
              LET r2 == aggregate_fields(r1.R, nframes[2], axes[2], method)
              IN IF r2.kind = "error" THEN r2
                 ELSE Pair(r2.R, [CopyDict(md) EXCEPT !.ypixelsize = space_window_m,
                                                      !.xpixelsize = space_window_m])

\* -------------------------------------------------- aggregate_fields_time
MinutesPerDay == 1440

\* (timestamps[1] - timestamps[0]).seconds/60 for timestamps in whole
\* minutes: timedelta.seconds leaves out the days
DeltaMinutes(timestamps) == (timestamps[2] - timestamps[1]) % MinutesPerDay

\* seq[start::step], start 0-based
Stride0(seq, start, step) ==
  [j \in 1..(IF Len(seq) > start THEN ((Len(seq) - start - 1) \div step) + 1 ELSE 0) |->
     seq[start + (j - 1) * step + 1]]

\* aggregate_fields_time(R, metadata, time_window_min); NoWindow stands for None
aggregate_fields_time(F, md, time_window_min) ==
  IF time_window_min = NoWindow THEN Pair(Copy(F), CopyDict(md))
  ELSE IF Rank(F) < 3 \/ Rank(F) > 4 THEN Raise("ValueError")
  ELSE
    LET axis == IF Rank(F) = 3 THEN 0 ELSE 1
        timestamps == md.timestamps
        delta == DeltaMinutes(timestamps)
        nframes == TruncDiv(time_window_min, delta)
        method == UnitMethod(md.unit)
    IN IF F.shape[axis + 1] # Len(timestamps) THEN Raise("ValueError")
       ELSE IF Len(timestamps) < 2 THEN Raise("IndexError")
       ELSE IF delta = time_window_min THEN Pair(Copy(F), CopyDict(md))
       ELSE IF (F.shape[axis + 1] * delta) % time_window_min # 0 THEN Raise("ValueError")
       ELSE IF delta = 0 THEN Raise("ZeroDivisionError")
       ELSE IF method = "none" THEN Raise("ValueError")
       ELSE
         LET r == aggregate_fields(Copy(F), nframes, axis, method)
             md1 == Put(Put(CopyDict(md), "accutime", time_window_min),
                        "timestamps", Stride0(timestamps, nframes - 1, nframes))
             md2 == IF Has(md, "leadtimes")
                    THEN Put(md1, "leadtimes", Stride0(md.leadtimes, nframes - 1, nframes))
                    ELSE md1
         IN IF r.kind = "error" THEN r ELSE Pair(r.R, md2)

\* ------------------------------------------- the objects a call is handed
\* A name of a function is bound to an object: arg tells whether that object
\* is the one the caller passed, val what the object holds.
\* a parameter, bound to the caller's object
Bound(v) == [arg |-> TRUE, val |-> v]

\* a plausible slip: the name keeps the caller's object
CopyBoundKept(b) == b

\* name = name.copy(): the name is rebound to a new object
CopyBound(b) == [arg |-> FALSE, val |-> b.val]

\* a write through the name (name[k] = v, name[k] -= v, name.pop(k)) that
\* leaves the object holding v
Written(b, v) == [arg |-> b.arg, val |-> v]

\* what the caller's object holds once the call is over
Kept(orig, b) == IF b.arg THEN b.val ELSE orig

\* the name R when the call returns or raises: rebound to a copy on entry by
\* the two aggregators and square_domain, after the divisibility test by
\* aggregate_fields, never by adjust_domain; no function writes through it
LocalR(c, F) ==
  IF c.op = "adjust_domain" THEN Bound(F)
  ELSE IF c.op = "aggregate_fields"
  THEN (IF c.window_size # 0 /\ Splits(F.shape[c.axis + 1], c.window_size)
        THEN CopyBound(Bound(F)) ELSE Bound(F))
  ELSE CopyBound(Bound(F))

\* the name metadata when the call returns or raises: rebound to a copy on
\* entry; a call that returns a pair returns the dict of this name; the
\* inverse of square_domain pops the recorded state from it before it
\* returns a field alone or raises; every other write follows the last raise
LocalMetadata(c, F, md, result) ==
  LET m0 == CopyBound(Bound(md))
  IN IF result.kind = "pair" THEN Written(m0, result.metadata)
     ELSE IF c.op = "square_domain" /\ c.inverse /\ Rank(F) >= 2 /\ Rank(F) <= 4
     THEN (IF ~Has(md, "square_method") THEN m0
           ELSE IF ~Has(md, "orig_domain") THEN Written(m0, Pop(md, "square_method"))
           ELSE Written(m0, PopState(md)))
     ELSE m0

\* the caller's field and metadata record once call c is over;
\* aggregate_fields is handed no metadata
InputsAfter(c, F, md, result) ==
  [R |-> Kept(F, LocalR(c, F)),
   metadata |-> IF c.op = "aggregate_fields" THEN md
                ELSE Kept(md, LocalMetadata(c, F, md, result))]

\* ------------------------------------------------------------ the caller
\* The caller holds a current (field, metadata) pair and calls the
\* functions of the module on it.  call is the last call and its arguments,
\* ret what it returned or raised, hist every call so far with its inputs
\* (as they were when the call was made) and what it returned, passed the
\* two objects handed to the last call as they are after it.
Last(s) == s[Len(s)]

NoCall == [op |-> "init"]

NoRet == [kind |-> "none"]

\* the caller rebinds its variables to what the call returned
Step(c, result) ==
  /\ call' = c
  /\ ret' = result
  /\ hist' = Append(hist, [call |-> c, R |-> R, metadata |-> metadata, ret |-> result])
  /\ R' = IF result.kind \in {"pair", "field"} THEN result.R ELSE R
  /\ metadata' = IF result.kind = "pair" THEN result.metadata ELSE metadata
  /\ passed' = InputsAfter(c, R, metadata, result)

\* ------------------------------------------- SpecAgg: the window aggregator
MinRank == 2
MaxRank == 4

\* the shapes of rank 2..4 with extents 1..ext and at most cells elements
ShapesWithin(ext, cells) ==
  UNION {{s \in [1..r -> 1..ext] : Size(s) <= cells} : r \in MinRank..MaxRank}

Shapes == ShapesWithin(MaxExt, MaxAggCells)

RECURSIVE Pow2(_)
Pow2(n) == IF n = 0 THEN 1 ELSE 2 * Pow2(n - 1)

\* cell i (in C order) of a labelled field holds 2^(i-1): a sum of cells
\* tells which cells were summed
Label(i) == Q(Pow2(i - 1))

NaNMasks(s) == {m \in SUBSET (1..Size(s)) : Cardinality(m) <= MaxNaN}

\* the labelled field of shape s with NaN at the cells of mask
Labelled(s, mask) ==
  [shape |-> s, data |-> [i \in 1..Size(s) |-> IF i \in mask THEN NaN ELSE Label(i)]]

AggFields == UNION {{Labelled(s, m) : m \in NaNMasks(s)} : s \in Shapes}

MethodArgs == Methods \cup {"Mean", "SUM", "max"}

NoMetadata == [k \in {} |-> 0]

InitAgg ==
  /\ R \in AggFields
  /\ metadata = NoMetadata
  /\ call = NoCall
  /\ ret = NoRet
  /\ hist = <<>>
  /\ passed = [R |-> R, metadata |-> metadata]

CallAggregateFields ==
  /\ Len(hist) < 1
  /\ \E w \in 1..MaxWindow, axis \in 0..(Rank(R) - 1), method \in MethodArgs :
       Step([op |-> "aggregate_fields", window_size |-> w, axis |-> axis, method |-> method],
            aggregate_fields(R, w, axis, method))

NextAgg == CallAggregateFields

SpecAgg == InitAgg /\ [][NextAgg]_vars

\* ------------------------------------ Spec: the (field, metadata) components
\* spatial extents (y, x) and the extent of the time axis of a field
SpatialExtents(s) == <<s[Len(s) - 1], s[Len(s)]>>

TimeExtent(s) == IF Len(s) >= 3 THEN s[Len(s) - 2] ELSE 1

PipeShapes == ShapesWithin(MaxSide, MaxCells)

Units == {"mm/h", "mm", "dBZ"}

PixelSizes == {1, 2}

Deltas == {1, 2, MinutesPerDay}

\* the metadata an importer gives a field of shape s: bounds that span the
\* grid, one timestamp per frame (whole minutes), optional lead times
ImportedMetadata(s, unit, xps, yps, delta, lead) ==
  LET base == [unit |-> unit, xpixelsize |-> xps, ypixelsize |-> yps,
               x1 |-> 0, x2 |-> SpatialExtents(s)[2] * xps,
               y1 |-> 0, y2 |-> SpatialExtents(s)[1] * yps,
               zerovalue |-> Q(0), accutime |-> delta,
               timestamps |-> [i \in 1..TimeExtent(s) |-> (i - 1) * delta]]
  IN IF lead THEN Put(base, "leadtimes", [i \in 1..TimeExtent(s) |-> i * delta]) ELSE base

\* the field of shape s whose cell i (in C order) holds the value i
Numbered(s) == [shape |-> s, data |-> [i \in 1..Size(s) |-> Q(i)]]

Init ==
  /\ \E s \in PipeShapes, unit \in Units, xps \in PixelSizes, yps \in PixelSizes,
        delta \in Deltas, lead \in BOOLEAN :
       /\ R = Numbered(s)
       /\ metadata = ImportedMetadata(s, unit, xps, yps, delta, lead)
  /\ call = NoCall
  /\ ret = NoRet
  /\ hist = <<>>
  /\ passed = [R |-> R, metadata |-> metadata]

Windows == {NoWindow} \cup (1..MaxWindow)

CallAggregateFieldsTime(depth, windows) ==
  /\ Len(hist) < depth
  /\ \E w \in windows :
       Step([op |-> "aggregate_fields_time", window |-> w],
            aggregate_fields_time(R, metadata, w))

CallAggregateFieldsSpace(depth, windows) ==
  /\ Len(hist) < depth
  /\ \E w \in windows :
       Step([op |-> "aggregate_fields_space", window |-> w],
            aggregate_fields_space(R, metadata, w))

\* the limits a caller passes for an axis with bounds lo, hi: None, or the
\* bounds moved by d at the low end and e at the high end
Limits(lo, hi, shifts) == {None} \cup {<<lo + d, hi + e>> : d \in shifts, e \in shifts}

LimitShifts == {0 - 1, 0, 1}

\* every pair (xlim, ylim) of such limits
AnyLimits == Limits(metadata.x1, metadata.x2, LimitShifts)
               \X Limits(metadata.y1, metadata.y2, LimitShifts)

\* both limits None, or the bounds of both axes kept, grown by a pixel at
\* each end, or shrunk by a pixel at each end
PixelLimits ==
  {<<None, None>>}
    \cup {<<<<metadata.x1 - k * metadata.xpixelsize, metadata.x2 + k * metadata.xpixelsize>>,
            <<metadata.y1 - k * metadata.ypixelsize, metadata.y2 + k * metadata.ypixelsize>>>> :
            k \in {0 - 1, 0, 1}}

CallAdjustDomain(depth, limits) ==
  /\ Len(hist) < depth
  /\ \E l \in limits :
       Step([op |-> "adjust_domain", xlim |-> l[1], ylim |-> l[2]],
            adjust_domain(R, metadata, l[1], l[2]))

CallSquareDomain(depth, methods) ==
  /\ Len(hist) < depth
  /\ \E method \in methods :
       Step([op |-> "square_domain", method |-> method, inverse |-> FALSE],
            square_domain(R, metadata, method, FALSE))

CallSquareDomainInverse(depth) ==
  /\ Len(hist) < depth
  /\ Step([op |-> "square_domain", method |-> "pad", inverse |-> TRUE],
          square_domain(R, metadata, "pad", TRUE))

\* Spec: one call of any component on any imported pair
Next ==
  \/ CallAggregateFieldsTime(1, Windows)
  \/ CallAggregateFieldsSpace(1, Windows)
  \/ CallAdjustDomain(1, AnyLimits)
  \/ CallSquareDomain(1, {"pad", "crop", "zoom"})
  \/ CallSquareDomainInverse(1)

Spec == Init /\ [][Next]_vars

\* SpecAggregators: one call of the temporal or the spatial aggregator on
\* any imported pair, the temporal windows including a whole day
TimeWindows == Windows \cup {MinutesPerDay}

NextAggregators ==
  \/ CallAggregateFieldsTime(1, TimeWindows)
  \/ CallAggregateFieldsSpace(1, Windows)

SpecAggregators == Init /\ [][NextAggregators]_vars

\* ----------------------------- SpecSeq: sequences of domain-reshaping calls
InitSeq ==
  /\ \E s \in PipeShapes, ps \in PixelSizes :
       /\ R = Numbered(s)
       /\ metadata = ImportedMetadata(s, "mm/h", ps, ps, 1, FALSE)
  /\ call = NoCall
  /\ ret = NoRet
  /\ hist = <<>>
  /\ passed = [R |-> R, metadata |-> metadata]

NextSeq ==
  \/ CallAggregateFieldsSpace(MaxCalls, {2})
  \/ CallAdjustDomain(MaxCalls, PixelLimits)
  \/ CallSquareDomain(MaxCalls, {"pad", "crop"})
  \/ CallSquareDomainInverse(MaxCalls)

SpecSeq == InitSeq /\ [][NextSeq]_vars

\* ------------------------- SpecCalls: short sequences of calls of every kind
\* aggregate_fields on the caller's current field, along any of its axes
CallAggregateFieldsOn(depth, windows, methods) ==
  /\ Len(hist) < depth
  /\ \E w \in windows, axis \in 0..(Rank(R) - 1), method \in methods :
       Step([op |-> "aggregate_fields", window_size |-> w, axis |-> axis, method |-> method],
            aggregate_fields(R, w, axis, method))

NextCalls ==
  \/ CallAggregateFieldsOn(MaxDepth, {2}, {"mean"})
  \/ CallAggregateFieldsTime(MaxDepth, {NoWindow, 2})
  \/ CallAggregateFieldsSpace(MaxDepth, {2})
  \/ CallAdjustDomain(MaxDepth, PixelLimits)
  \/ CallSquareDomain(MaxDepth, {"pad", "crop", "zoom"})
  \/ CallSquareDomainInverse(MaxDepth)

SpecCalls == InitSeq /\ [][NextCalls]_vars

\* ---------------------------------------------------------------- claim C1
RECURSIVE SeqSum(_)
SeqSum(vs) == IF vs = <<>> THEN Q(0) ELSE Add(Head(vs), SeqSum(Tail(vs)))

RECURSIVE DropNaN(_)
DropNaN(vs) == IF vs = <<>> THEN <<>>
               ELSE (IF IsNaN(Head(vs)) THEN <<>> ELSE <<Head(vs)>>) \o DropNaN(Tail(vs))

\* what each reduction means on a sequence of values
Reduction(method, vs) ==
  CASE method = "sum" -> SeqSum(vs)
    [] method = "mean" -> DivCount(SeqSum(vs), Len(vs))
    [] method = "nansum" -> SeqSum(DropNaN(vs))
    [] method = "nanmean" -> DivCount(SeqSum(DropNaN(vs)), Len(DropNaN(vs)))

\* the values of F at the w positions k*w .. (k+1)*w-1 of axis, k = I[axis],
\* and at the positions of I on the other axes
BlockValues(F, I, axis, w) ==
  [j \in 1..w |-> At(F, [I EXCEPT ![axis + 1] = I[axis + 1] * w + (j - 1)])]

\* the last call was aggregate_fields with a window that divides the extent
\* of the axis and one of the four methods
AggCase ==
  /\ call.op = "aggregate_fields"
  /\ call.method \in Methods
  /\ Last(hist).R.shape[call.axis + 1] % call.window_size = 0

\* the shape law and the block law of C1
AggBlocks ==
  LET F == Last(hist).R
      w == call.window_size
      a == call.axis
  IN /\ ret.kind = "field"
     /\ ret.R.shape = [F.shape EXCEPT ![a + 1] = F.shape[a + 1] \div w]
     /\ \A i \in 1..Size(ret.R.shape) :
          ret.R.data[i] = Reduction(call.method, BlockValues(F, Unravel(i - 1, ret.R.shape), a, w))

\* C1 as stated: shape law, block law, and window size 1 returns a field
\* equal to R (same shape, same value in every cell, NaN counted equal to NaN)
C1_AsStated ==
  AggCase => /\ AggBlocks
             /\ call.window_size = 1 => ret.R = Last(hist).R

\* C1 amended: the shape law and the block law hold for every dividing
\* window and each of the four methods; with window size 1 the result equals
\* R under sum, mean and nanmean, and under nansum equals R with every NaN
\* cell replaced by 0
C1_Aggregate ==
  AggCase =>
    /\ AggBlocks
    /\ call.window_size = 1 =>
         /\ ret.kind = "field"
         /\ ret.R.shape = Last(hist).R.shape
         /\ \A i \in 1..Size(ret.R.shape) :
              ret.R.data[i] = IF call.method = "nansum" /\ IsNaN(Last(hist).R.data[i])
                              THEN Q(0) ELSE Last(hist).R.data[i]

\* C1 witness: two or more blocks of two or more slices along an axis that
\* is not the first, another axis of extent > 1, and a NaN in the input
C1_Witness ==
  /\ AggCase
  /\ ret.kind = "field"
  /\ call.window_size >= 2
  /\ call.axis >= 1
  /\ ret.R.shape[call.axis + 1] >= 2
  /\ Size(ret.R.shape) > ret.R.shape[call.axis + 1]
  /\ call.method = "nanmean"
  /\ \E i \in 1..Size(Last(hist).R.shape) : IsNaN(Last(hist).R.data[i])

\* ------------------------------------------------- claims on square_domain
IsForward(e, method) ==
  e.call.op = "square_domain" /\ ~e.call.inverse /\ e.call.method = method

IsInverse(e) == e.call.op = "square_domain" /\ e.call.inverse

NonSquare(F) == Rank(F) \in MinRank..MaxRank /\ SpatialExtents(F.shape)[1] # SpatialExtents(F.shape)[2]

\* call j squared a non-square field by method and call j+1 was the inverse,
\* applied to what call j returned
RoundTrip(j, method) ==
  /\ j + 1 <= Len(hist)
  /\ IsForward(hist[j], method)
  /\ NonSquare(hist[j].R)
  /\ hist[j].ret.kind = "pair"
  /\ IsInverse(hist[j + 1])

\* C2 as stated: pad, then the inverse, returns a field of the original shape
\* with the original value at every index
C2_PadRoundTrip ==
  \A j \in 1..Len(hist) :
    RoundTrip(j, "pad") =>
      /\ hist[j + 1].ret.kind = "pair"
      /\ hist[j + 1].ret.R.shape = hist[j].R.shape
      /\ hist[j + 1].ret.R.data = hist[j].R.data

\* first index of the band the crop keeps on an axis of extent n cut to m
CropStart(n, m) == (n - m) \div 2

\* whether cell I of a 4-D field of spatial extents (y, x) survives the crop
\* to the shorter extent
Survives(I, y, x) ==
  /\ I[3] >= CropStart(y, Min(y, x)) /\ I[3] < CropStart(y, Min(y, x)) + Min(y, x)
  /\ I[4] >= CropStart(x, Min(y, x)) /\ I[4] < CropStart(x, Min(y, x)) + Min(y, x)

\* C3 as stated: crop, then the inverse, returns a field with the original
\* spatial extents, the original value in every cell that survived the crop
\* and 0 in every cell that was cropped away
C3_CropRoundTrip ==
  \A j \in 1..Len(hist) :
    RoundTrip(j, "crop") =>
      LET O == Promote4(hist[j].R)
          out == hist[j + 1].ret.R
      IN /\ hist[j + 1].ret.kind = "pair"
         /\ Rank(out) >= 2
         /\ SpatialExtents(out.shape) = SpatialExtents(O.shape)
         /\ Size(out.shape) = Size(O.shape)
         /\ \A i \in 1..Size(O.shape) :
              out.data[i] = IF Survives(Unravel(i - 1, O.shape), O.shape[3], O.shape[4])
                            THEN O.data[i] ELSE Q(0)

\* bounds and pixel sizes agree with the spatial extents of the field
Consistent(F, md) ==
  /\ md.x2 - md.x1 = SpatialExtents(F.shape)[2] * md.xpixelsize
  /\ md.y2 - md.y1 = SpatialExtents(F.shape)[1] * md.ypixelsize

\* C4 as stated: after any sequence of square_domain, adjust_domain and
\* aggregate_fields_space calls from a consistent pair, a returned field (of
\* rank 2 or more) and metadata are consistent
C4_BoundsConsistent ==
  (ret.kind = "pair" /\ Rank(ret.R) >= 2) => Consistent(ret.R, ret.metadata)

\* C6 as stated: a square_domain call that does not fail returns a pair, and
\* a forward call on a square field returns the input metadata
C6_ReturnsPair ==
  (call.op = "square_domain" /\ ret.kind # "error") =>
    /\ ret.kind = "pair"
    /\ (~call.inverse /\ ~NonSquare(Last(hist).R)) => ret.metadata = Last(hist).metadata

\* the 4-D field of spatial extents (L, L) holding P with a band of width b
\* before it on the shorter axis and the value fill in the bands
Padded(P, L, b, fill) ==
  LET axis == IF P.shape[4] < P.shape[3] THEN 4 ELSE 3
      s == <<P.shape[1], P.shape[2], L, L>>
  IN [shape |-> s,
      data |-> [i \in 1..Size(s) |->
                  LET I == Unravel(i - 1, s)
                  IN IF I[axis] >= b /\ I[axis] < b + P.shape[axis]
                     THEN At(P, [I EXCEPT ![axis] = @ - b])
                     ELSE fill]]

\* C7 as stated: pad on a non-square field returns a square field of the
\* longer extent, the data between two bands of equal width b that hold the
\* field's minimum, the bounds of the padded axis moved outward by b pixels
\* on each side, orig_domain and square_method recorded
C7_PadEqualBands ==
  (call.op = "square_domain" /\ ~call.inverse /\ call.method = "pad"
     /\ NonSquare(Last(hist).R)) =>
    LET P == Promote4(Last(hist).R)
        md == Last(hist).metadata
        y == P.shape[3]
        x == P.shape[4]
        L == Max(y, x)
    IN /\ ret.kind = "pair"
       /\ Rank(ret.R) >= 2
       /\ SpatialExtents(ret.R.shape) = <<L, L>>
       /\ \E b \in 0..L :
            /\ 2 * b = L - Min(y, x)
            /\ ret.R.data = Padded(P, L, b, ArrMin(P)).data
            /\ IF x < y
               THEN /\ ret.metadata.x1 = md.x1 - b * md.xpixelsize
                    /\ ret.metadata.x2 = md.x2 + b * md.xpixelsize
                    /\ ret.metadata.y1 = md.y1 /\ ret.metadata.y2 = md.y2
               ELSE /\ ret.metadata.y1 = md.y1 - b * md.ypixelsize
                    /\ ret.metadata.y2 = md.y2 + b * md.ypixelsize
                    /\ ret.metadata.x1 = md.x1 /\ ret.metadata.x2 = md.x2
       /\ Has(ret.metadata, "orig_domain") /\ ret.metadata.orig_domain = <<y, x>>
       /\ Has(ret.metadata, "square_method") /\ ret.metadata.square_method = "pad"

HasState(md) == Has(md, "orig_domain") /\ Has(md, "square_method")

\* C8: an inverse call succeeds only on metadata that carries orig_domain
\* and square_method; the metadata a successful inverse returns carries
\* neither; and an inverse that follows an inverse which returned metadata,
\* with no forward squaring between them, fails
C8_InverseConsumesState ==
  \A j \in 1..Len(hist) :
    IsInverse(hist[j]) =>
      /\ hist[j].ret.kind # "error" => HasState(hist[j].metadata)
      /\ hist[j].ret.kind = "pair" =>
           /\ ~Has(hist[j].ret.metadata, "orig_domain")
           /\ ~Has(hist[j].ret.metadata, "square_method")
      /\ \A i \in 1..(j - 1) :
           (/\ IsInverse(hist[i])
            /\ hist[i].ret.kind = "pair"
            /\ \A k \in (i + 1)..(j - 1) :
                 ~(hist[k].call.op = "square_domain" /\ ~hist[k].call.inverse))
             => hist[j].ret.kind = "error"

\* C8 witness: a forward squaring, an inverse that returned a pair, and a
\* second inverse that raised KeyError
C8_Witness ==
  /\ Len(hist) = 3
  /\ hist[1].call.op = "square_domain" /\ ~hist[1].call.inverse /\ hist[1].ret.kind = "pair"
  /\ IsInverse(hist[2]) /\ hist[2].ret.kind = "pair"
  /\ IsInverse(hist[3]) /\ hist[3].ret = Raise("KeyError")

\* ------------------------------------------------- claim on adjust_domain
\* what C5 puts in cell I of the output grid: the input cell under the
\* centre of the output pixel when that centre is inside the old bounds,
\* zerovalue otherwise (positions compared in half-coordinate units)
Relocated(P, md, xmin, ymin, I) ==
  LET cy == 2 * ymin + (2 * I[3] + 1) * md.ypixelsize
      cx == 2 * xmin + (2 * I[4] + 1) * md.xpixelsize
  IN IF cy > 2 * md.y1 /\ cy < 2 * md.y2 /\ cx > 2 * md.x1 /\ cx < 2 * md.x2
     THEN At(P, <<I[1], I[2], (cy - 2 * md.y1) \div (2 * md.ypixelsize),
                              (cx - 2 * md.x1) \div (2 * md.xpixelsize)>>)
     ELSE md.zerovalue

\* C5 as stated: a successful adjust_domain call relocates the data by
\* geographic position and fills the rest with zerovalue; with limits equal
\* to the current bounds the returned field equals the input
C5_AdjustRelocates ==
  (call.op = "adjust_domain" /\ ~(call.xlim = None /\ call.ylim = None)
     /\ ret.kind = "pair") =>
    LET P == Promote4(Last(hist).R)
        md == Last(hist).metadata
        xlim == IF call.xlim = None THEN <<md.x1, md.x2>> ELSE call.xlim
        ylim == IF call.ylim = None THEN <<md.y1, md.y2>> ELSE call.ylim
        s == <<P.shape[1], P.shape[2],
               (ylim[2] - ylim[1]) \div md.ypixelsize, (xlim[2] - xlim[1]) \div md.xpixelsize>>
    IN /\ Size(ret.R.shape) = Size(s)
       /\ \A i \in 1..Size(s) :
            ret.R.data[i] = Relocated(P, md, xlim[1], ylim[1], Unravel(i - 1, s))
       /\ (xlim = <<md.x1, md.x2>> /\ ylim = <<md.y1, md.y2>>) =>
            ret.R.data = Last(hist).R.data

\* ------------------------------------------- claims on the two aggregators
Supported(unit) == unit \in {"mm/h", "mm"}

\* C9 as stated, for the supported units and a window longer than the
\* sampling interval: a window that divides the time span t*delta gives
\* k = t*delta/window frames, the timestamp (and lead time) of output frame j
\* the last one of the j-th block of t/k input frames, accutime the window
C9_TimeFrames ==
  (/\ call.op = "aggregate_fields_time"
   /\ call.window # NoWindow
   /\ Rank(Last(hist).R) \in {3, 4}
   /\ Supported(Last(hist).metadata.unit)
   /\ Len(Last(hist).metadata.timestamps) >= 2) =>
    LET F == Last(hist).R
        md == Last(hist).metadata
        axis == IF Rank(F) = 3 THEN 1 ELSE 2
        t == F.shape[axis]
        delta == md.timestamps[2] - md.timestamps[1]
        w == call.window
        k == (t * delta) \div w
    IN (t = Len(md.timestamps) /\ w > delta /\ (t * delta) % w = 0) =>
         /\ ret.kind = "pair"
         /\ ret.R.shape = [F.shape EXCEPT ![axis] = k]
         /\ Len(ret.metadata.timestamps) = k
         /\ \A j \in 1..k : ret.metadata.timestamps[j] = md.timestamps[j * (t \div k)]
         /\ Has(md, "leadtimes") =>
              /\ Len(ret.metadata.leadtimes) = k
              /\ \A j \in 1..k : ret.metadata.leadtimes[j] = md.leadtimes[j * (t \div k)]
         /\ ret.metadata.accutime = w

\* the values of the by-by-bx block of input cells under output cell I
\* (axes ya, xa 1-based), row by row
SpaceBlock(F, I, ya, xa, by, bx) ==
  [q \in 1..(by * bx) |->
     At(F, [I EXCEPT ![ya] = I[ya] * by + ((q - 1) \div bx),
                     ![xa] = I[xa] * bx + ((q - 1) % bx)])]

\* C10 as stated, for the supported units and a window no shorter than a
\* pixel: when m*ypixelsize and n*xpixelsize are multiples of the window the
\* call returns spatial extents (m*ypixelsize/window, n*xpixelsize/window),
\* each cell the reduction of its block, and both pixel sizes the window
C10_SpaceExtents ==
  (/\ call.op = "aggregate_fields_space"
   /\ call.window # NoWindow
   /\ Rank(Last(hist).R) \in {3, 4}
   /\ Supported(Last(hist).metadata.unit)) =>
    LET F == Last(hist).R
        md == Last(hist).metadata
        ya == Rank(F) - 1
        xa == Rank(F)
        w == call.window
        k == (F.shape[ya] * md.ypixelsize) \div w
        j == (F.shape[xa] * md.xpixelsize) \div w
    IN (/\ (F.shape[ya] * md.ypixelsize) % w = 0
        /\ (F.shape[xa] * md.xpixelsize) % w = 0
        /\ w >= md.ypixelsize /\ w >= md.xpixelsize
        /\ ~(w = md.ypixelsize /\ w = md.xpixelsize)) =>
         /\ ret.kind = "pair"
         /\ ret.R.shape = [F.shape EXCEPT ![ya] = k, ![xa] = j]
         /\ \A i \in 1..Size(ret.R.shape) :
              ret.R.data[i] =
                Reduction(UnitMethod(md.unit),
                          SpaceBlock(F, Unravel(i - 1, ret.R.shape), ya, xa,
                                     F.shape[ya] \div k, F.shape[xa] \div j))
         /\ ret.metadata.xpixelsize = w
         /\ ret.metadata.ypixelsize = w

\* the last call was one of the two aggregators with a window, on the pair
\* before the call
IsAggregator == call.op \in {"aggregate_fields_time", "aggregate_fields_space"}

\* the sampling interval of the timestamps, in minutes
SamplingInterval(md) == md.timestamps[2] - md.timestamps[1]

\* the window asks for no aggregation: it equals the sampling interval
\* (temporal) or both pixel sizes (spatial)
KeepsResolution ==
  LET md == Last(hist).metadata
  IN IF call.op = "aggregate_fields_time"
     THEN Len(md.timestamps) >= 2 /\ call.window = SamplingInterval(md)
     ELSE call.window = md.ypixelsize /\ call.window = md.xpixelsize

\* every value of the returned field is the reduction by method of its block
\* of input values: the frames (temporal) or the rows and columns (spatial)
\* of the input that the output cell stands for
BlocksReducedBy(method) ==
  LET F == Last(hist).R
      out == ret.R
      r == Rank(F)
  IN /\ Rank(out) = r
     /\ \A a \in 1..r : F.shape[a] % out.shape[a] = 0
     /\ \A i \in 1..Size(out.shape) :
          out.data[i] =
            Reduction(method,
                      IF call.op = "aggregate_fields_time"
                      THEN BlockValues(F, Unravel(i - 1, out.shape), r - 3,
                                       F.shape[r - 2] \div out.shape[r - 2])
                      ELSE SpaceBlock(F, Unravel(i - 1, out.shape), r - 1, r,
                                      F.shape[r - 1] \div out.shape[r - 1],
                                      F.shape[r] \div out.shape[r]))

\* C11: when aggregate_fields_time or aggregate_fields_space aggregates
\* (returns with a window that is neither None nor the current resolution),
\* every output value is the mean of its block of input values for unit
\* 'mm/h' and the sum of its block for unit 'mm'
C11_UnitSelectsReduction ==
  (IsAggregator /\ call.window # NoWindow /\ ret.kind = "pair" /\ ~KeepsResolution) =>
    /\ Last(hist).metadata.unit = "mm/h" => BlocksReducedBy("mean")
    /\ Last(hist).metadata.unit = "mm" => BlocksReducedBy("sum")

\* C11 witness: a spatial aggregation of a 'mm/h' field over blocks of more
\* than one row and more than one column
C11_Witness ==
  /\ call.op = "aggregate_fields_space"
  /\ call.window # NoWindow
  /\ ret.kind = "pair"
  /\ Last(hist).metadata.unit = "mm/h"
  /\ SpatialExtents(Last(hist).R.shape)[1] > SpatialExtents(ret.R.shape)[1]
  /\ SpatialExtents(Last(hist).R.shape)[2] > SpatialExtents(ret.R.shape)[2]

\* the last call was an aggregator call with a window and a metadata unit
\* other than 'mm/h' and 'mm'
UnsupportedUnitCall ==
  /\ IsAggregator
  /\ call.window # NoWindow
  /\ ~Supported(Last(hist).metadata.unit)

Divides == Last(hist).R.shape[call.axis + 1] % call.window_size = 0

\* C13 as stated: aggregate_fields fails for every window that does not
\* divide the extent of the axis, whatever the method, and for every
\* dividing window with a method name that is not one of sum, mean, nansum,
\* nanmean
C13_AsStated ==
  call.op = "aggregate_fields" =>
    /\ ~Divides => ret.kind = "error"
    /\ (Divides /\ call.method \notin {"sum", "mean", "nansum", "nanmean"}) => ret.kind = "error"

\* C13 amended: aggregate_fields fails for every window that does not divide
\* the extent of the axis, whatever the method, and for every dividing
\* window with a method name that in lower case is not one of sum, mean,
\* nansum, nanmean
C13_AggregateErrors ==
  call.op = "aggregate_fields" =>
    /\ ~Divides => ret.kind = "error"
    /\ (Divides /\ Lower(call.method) \notin {"sum", "mean", "nansum", "nanmean"}) =>
         ret.kind = "error"

\* C13 witness: a window of two or more slices, shorter than the axis, that
\* leaves a remainder is refused under one of the four methods
C13_Witness ==
  /\ call.op = "aggregate_fields"
  /\ ~Divides
  /\ call.window_size >= 2
  /\ call.window_size < Last(hist).R.shape[call.axis + 1]
  /\ call.method \in {"sum", "mean", "nansum", "nanmean"}
  /\ ret = Raise("ValueError")

\* ------------------------------------------------ the no-op laws
\* the last call was an aggregator call on a field of the rank it takes
\* (with one timestamp per frame for the temporal aggregator)
WellFormedCall ==
  /\ IsAggregator
  /\ Rank(Last(hist).R) \in {3, 4}
  /\ call.op = "aggregate_fields_time" =>
       Len(Last(hist).metadata.timestamps) = Last(hist).R.shape[Rank(Last(hist).R) - 2]

\* C14 as stated: an aggregator called with window None, or with a window
\* equal to the current sampling interval (temporal) or to both pixel sizes
\* (spatial), returns a field equal to the input in shape and in every value
\* and metadata equal to the input in every key and value
C14_NoOp ==
  (IsAggregator /\ (call.window = NoWindow \/ (WellFormedCall /\ KeepsResolution))) =>
    /\ ret.kind = "pair"
    /\ ret.R = Last(hist).R
    /\ ret.metadata = Last(hist).metadata

\* ------------------------------------------------- the caller's inputs
\* C15: no call changes the caller's input field or input metadata record,
\* whether it returns or raises: after the call both hold what they held
\* when the call was made, orig_domain and square_method included
C15_InputsUnchanged ==
  call.op # "init" =>
    /\ passed.R = Last(hist).R
    /\ passed.metadata = Last(hist).metadata

\* C15 witness: an inverse call that returned metadata without the recorded
\* state, the caller's metadata record still carrying it
C15_Witness ==
  /\ call.op = "square_domain" /\ call.inverse
  /\ ret.kind = "pair"
  /\ ~HasState(ret.metadata)
  /\ HasState(passed.metadata)
  /\ passed.metadata = Last(hist).metadata
  /\ passed.R = Last(hist).R

====
